---- MODULE Spec2Model ----
(***************************************************************************)
(* Ledger core of bank_infra_exercise: create_transaction and              *)
(* create_transfer (app/services/transaction_service.py) run inside the    *)
(* per-request session scope of get_db (app/database.py), against the      *)
(* accounts and transactions tables (app/models).                          *)
(*                                                                         *)
(* Each process is one client issuing requests one after another; the      *)
(* requests of different processes interleave at the awaits of the code    *)
(* (db.execute, db.flush, session.commit).                                 *)
(*                                                                         *)
(* The storage backend is a deployment choice (settings.DATABASE_URL):     *)
(* with_for_update() takes a row lock on PostgreSQL and is a no-op on      *)
(* SQLite, where the only lock is the database write lock taken by the     *)
(* first INSERT/UPDATE of a session and held until commit or rollback.     *)
(*                                                                         *)
(* The CHECK constraint of table accounts (balance >= 0) is not modelled    *)
(* as a guard: non-negativity is established from the application logic    *)
(* alone.  The CHECK constraint of table transactions (amount > 0) is the   *)
(* only place where the code rejects a non-positive amount that reaches     *)
(* the service functions, and it is modelled at the flush.                  *)
(***************************************************************************)
EXTENDS Integers, Sequences, FiniteSets, TLC

\* ---- bounds ----------------------------------------------------------
MaxOps == 2        \* number of requests issued after the opening deposits
OpeningDeposit == 1 \* amount of the deposit each account was opened with
MaxAmount == 2     \* amounts are drawn from 1..MaxAmount
MaxAccountNumber == 3 \* account numbers are drawn from 1..MaxAccountNumber
MaxRows == 2       \* rows of the ledgers statements are generated from

\* ---- fixed universe --------------------------------------------------
Procs == {"p1", "p2"}
Accounts == {1, 2}                  \* ids of the rows of table accounts
MissingAccount == 3                 \* an id with no row
AccountIds == Accounts \cup {MissingAccount}
Holders == {"h1", "h2"}
Backends == {"sqlite", "postgresql"}
Null == 0                           \* None / SQL NULL
NoProc == "none"
NotLoaded == -1

\* Account.account_holder_id of the existing rows
account_holder_id(a) == IF a = 1 THEN "h1" ELSE "h2"

\* card ids a request may name; card 3 has no row
CardIds == {Null, 1, 2, 3}

Amounts == 1..MaxAmount

\* amounts the schemas (Field(gt=0)) and the table constraint refuse
NonPositiveAmounts == {-1, 0}

VARIABLES
    backend,      \* "sqlite" or "postgresql"
    balance,      \* committed accounts.cached_balance_cents
    log,          \* committed rows of table transactions, in commit order
    rowLock,      \* PostgreSQL: holder of the FOR UPDATE lock of each row
    writeLock,    \* SQLite: holder of the database write lock
    pc,           \* position of each process's request
    req,          \* arguments of the service call in flight
    sess,         \* the request's AsyncSession: loaded accounts, pending rows
    err,          \* exception propagating out of the service call
    nextUuid,     \* supply of fresh uuid4 values
    ops,          \* number of requests issued so far
    cards,        \* committed rows of table cards
    account_number \* committed accounts.account_number of every account

vars == <<backend, balance, log, rowLock, writeLock, pc, req, sess, err, nextUuid, ops,
          cards, account_number>>

NoReq == [op |-> "none"]
NoErr == [kind |-> "none"]
\* new_cards and new_accounts are the flushed INSERTs into cards and accounts
EmptySession == [snap |-> [a \in Accounts |-> NotLoaded], dirty |-> {}, rows |-> <<>>,
                 new_cards |-> {}, new_accounts |-> {}]

\* ---- the cards table -----------------------------------------------------
Card(id, account_id, is_active) ==
    [id |-> id, account_id |-> account_id, is_active |-> is_active]

\* Card.id, Card.account_id and Card.is_active of the committed rows
Cards == {c.id : c \in cards}
card_account_id(c) == (CHOOSE row \in cards : row.id = c).account_id
card_is_active(c) == (CHOOSE row \in cards : row.id = c).is_active

\* ---- the transactions table -------------------------------------------
Transaction(id, type, amount_cents, from_account_id, to_account_id, status, transfer_pair_id, card_id) ==
    [id |-> id, type |-> type, amount_cents |-> amount_cents,
     from_account_id |-> from_account_id, to_account_id |-> to_account_id,
     status |-> status, transfer_pair_id |-> transfer_pair_id, card_id |-> card_id]

\* signed contribution of one row to the computed balance of an account:
\* approved credits to the account count +amount, approved debits from it -amount
Contribution(t, account_id) ==
    IF t.status = "approved" /\ t.type = "credit" /\ t.to_account_id = account_id
    THEN t.amount_cents
    ELSE IF t.status = "approved" /\ t.type = "debit" /\ t.from_account_id = account_id
    THEN 0 - t.amount_cents
    ELSE 0

RECURSIVE compute_balance_from_transactions(_, _)
compute_balance_from_transactions(rows, account_id) ==
    IF rows = <<>> THEN 0
    ELSE Contribution(Head(rows), account_id)
         + compute_balance_from_transactions(Tail(rows), account_id)

\* ---- initial state -------------------------------------------------------
\* Both accounts exist and each has received one deposit, made one after the
\* other with no request in flight: one approved credit row per account.
Init ==
    /\ backend \in Backends
    /\ balance = [a \in Accounts |-> OpeningDeposit]
    /\ log = [a \in 1..2 |-> Transaction(a, "credit", OpeningDeposit, Null, a, "approved", Null, Null)]
    /\ rowLock = [a \in Accounts |-> NoProc]
    /\ writeLock = NoProc
    /\ pc = [p \in Procs |-> "idle"]
    /\ req = [p \in Procs |-> NoReq]
    /\ sess = [p \in Procs |-> EmptySession]
    /\ err = [p \in Procs |-> NoErr]
    /\ nextUuid = 3
    /\ ops = 0
    /\ cards = {Card(1, 1, TRUE), Card(2, 2, FALSE)}
    /\ account_number = [a \in Accounts |-> a]

\* ---- SELECT ... FROM accounts WHERE id = :id FOR UPDATE ------------------
\* PostgreSQL blocks until the row lock is free and then reads the committed
\* row; SQLite ignores FOR UPDATE and reads the committed row at once.
CanSelectForUpdate(p, id) ==
    (backend = "postgresql" /\ id \in Accounts) => rowLock[id] \in {NoProc, p}

SelectForUpdate(p, id) ==
    /\ CanSelectForUpdate(p, id)
    /\ rowLock' = IF backend = "postgresql" /\ id \in Accounts
                  THEN [rowLock EXCEPT ![id] = p]
                  ELSE rowLock
    /\ sess' = IF id \in Accounts
               THEN [sess EXCEPT ![p].snap[id] = balance[id]]
               ELSE sess

\* ---- db.flush(): the session's INSERTs and UPDATEs reach the database ------
\* Transaction.id defaults to a fresh uuid4 at INSERT.  On SQLite the first
\* write statement takes the database write lock and blocks while another
\* session holds it.
WithIds(rows, first) ==
    [i \in 1..Len(rows) |-> [rows[i] EXCEPT !.id = first + i - 1]]

CanFlush(p) == backend = "sqlite" => writeLock \in {NoProc, p}

\* the constraint written as amount_cents >= 0
PositiveAmountAllowsZero(rows) == \A i \in 1..Len(rows) : rows[i].amount_cents >= 0

\* ck_transactions_positive_amount: CHECK (amount_cents > 0) on every INSERT
ck_transactions_positive_amount(rows) == \A i \in 1..Len(rows) : rows[i].amount_cents > 0

\* The UPDATE of accounts goes first and takes the write lock; an INSERT that
\* violates the constraint then raises IntegrityError out of the flush.
FlushSession(p, staged) ==
    /\ CanFlush(p)
    /\ writeLock' = IF backend = "sqlite" THEN p ELSE writeLock
    /\ IF ck_transactions_positive_amount(staged.rows)
       THEN /\ sess' = [sess EXCEPT ![p] = [staged EXCEPT !.rows = WithIds(staged.rows, nextUuid)]]
            /\ nextUuid' = nextUuid + Len(staged.rows)
       ELSE /\ sess' = [sess EXCEPT ![p] = staged]
            /\ nextUuid' = nextUuid

\* the service function's exit after the flush: the IntegrityError of the
\* flush, InsufficientFundsError after a declined row (lines 155-159,
\* 266-270), a normal return otherwise
AfterFlush(p, staged, account_id) ==
    IF ~ck_transactions_positive_amount(staged.rows)
    THEN /\ err' = [err EXCEPT ![p] = [kind |-> "Exception"]]
         /\ pc' = [pc EXCEPT ![p] = "raised"]
    ELSE IF staged.rows[1].status = "declined"
    THEN /\ err' = [err EXCEPT ![p] =
                      [kind |-> "InsufficientFunds", account_id |-> account_id,
                       requested_cents |-> req[p].amount_cents,
                       available_cents |-> staged.snap[account_id]]]
         /\ pc' = [pc EXCEPT ![p] = "raised"]
    ELSE /\ err' = err
         /\ pc' = [pc EXCEPT ![p] = "returned"]

\* ---- create_transaction ---------------------------------------------------
\* lines 97-102: load the account row under the lock
TxnSelect(p) ==
    /\ pc[p] = "select"
    /\ SelectForUpdate(p, req[p].account_id)
    /\ pc' = [pc EXCEPT ![p] = "body"]
    /\ UNCHANGED <<backend, cards, account_number, balance, log, writeLock, req, err, nextUuid, ops>>

\* the validation without the is_active test of lines 134-139
TxnValidationErrorIgnoresInactive(r) ==
    IF r.account_id \notin Accounts THEN "AccountNotFound"
    ELSE IF account_holder_id(r.account_id) # r.account_holder_id THEN "UnauthorizedAccess"
    ELSE IF r.card_id # Null /\ r.txn_type = "credit" THEN "HTTPException"
    ELSE IF r.card_id # Null /\ r.card_id \notin Cards THEN "HTTPException"
    ELSE IF r.card_id # Null /\ card_account_id(r.card_id) # r.account_id THEN "HTTPException"
    ELSE "none"

\* lines 104-139: the validation that raises before anything is written
TxnValidationError(r) ==
    IF r.account_id \notin Accounts THEN "AccountNotFound"
    ELSE IF account_holder_id(r.account_id) # r.account_holder_id THEN "UnauthorizedAccess"
    ELSE IF r.card_id # Null /\ r.txn_type = "credit" THEN "HTTPException"
    ELSE IF r.card_id # Null /\ r.card_id \notin Cards THEN "HTTPException"
    ELSE IF r.card_id # Null /\ card_account_id(r.card_id) # r.account_id THEN "HTTPException"
    ELSE IF r.card_id # Null /\ ~card_is_active(r.card_id) THEN "HTTPException"
    ELSE "none"

\* the comparison of line 142 written the wrong way round
DebitDeclinedReversed(cached_balance_cents, amount_cents) == cached_balance_cents > amount_cents

\* the comparison of line 142 off by one: a debit of the whole balance is declined
DebitDeclinedAtBalance(cached_balance_cents, amount_cents) == cached_balance_cents <= amount_cents

\* lines 142 and 252: a debit is declined when the loaded balance is below the amount
DebitDeclined(cached_balance_cents, amount_cents) == cached_balance_cents < amount_cents

\* the balance is debited before the check instead of after it
TxnStageDebitsFirst(s, r) ==
    LET a == r.account_id
        cur == s.snap[a]
    IN IF r.txn_type = "debit"
       THEN [s EXCEPT !.snap[a] = cur - r.amount_cents,
                      !.dirty = {a},
                      !.rows = <<Transaction(Null, "debit", r.amount_cents, a, Null,
                                             IF DebitDeclined(cur, r.amount_cents)
                                             THEN "declined" ELSE "approved",
                                             Null, r.card_id)>>]
       ELSE [s EXCEPT !.snap[a] = cur + r.amount_cents,
                      !.dirty = {a},
                      !.rows = <<Transaction(Null, "credit", r.amount_cents, Null, a,
                                             "approved", Null, Null)>>]

\* the credit row is built without a status and takes the column default
TxnStageCreditStatusDefault(s, r) ==
    LET a == r.account_id
        cur == s.snap[a]
    IN IF r.txn_type = "debit"
       THEN IF DebitDeclined(cur, r.amount_cents)
            THEN [s EXCEPT !.rows = <<Transaction(Null, "debit", r.amount_cents, a, Null,
                                                  "declined", Null, r.card_id)>>]
            ELSE [s EXCEPT !.snap[a] = cur - r.amount_cents,
                           !.dirty = {a},
                           !.rows = <<Transaction(Null, "debit", r.amount_cents, a, Null,
                                                  "approved", Null, r.card_id)>>]
       ELSE [s EXCEPT !.snap[a] = cur + r.amount_cents,
                      !.dirty = {a},
                      !.rows = <<Transaction(Null, "credit", r.amount_cents, Null, a,
                                             "pending", Null, Null)>>]

\* a declined debit is recorded without its source account
TxnStageDeclinedWithoutSource(s, r) ==
    LET a == r.account_id
        cur == s.snap[a]
    IN IF r.txn_type = "debit"
       THEN IF DebitDeclined(cur, r.amount_cents)
            THEN [s EXCEPT !.rows = <<Transaction(Null, "debit", r.amount_cents, Null, Null,
                                                  "declined", Null, r.card_id)>>]
            ELSE [s EXCEPT !.snap[a] = cur - r.amount_cents,
                           !.dirty = {a},
                           !.rows = <<Transaction(Null, "debit", r.amount_cents, a, Null,
                                                  "approved", Null, r.card_id)>>]
       ELSE [s EXCEPT !.snap[a] = cur + r.amount_cents,
                      !.dirty = {a},
                      !.rows = <<Transaction(Null, "credit", r.amount_cents, Null, a,
                                             "approved", Null, Null)>>]

\* lines 141-182: the session after the balance check, before the flush
TxnStage(s, r) ==
    LET a == r.account_id
        cur == s.snap[a]
    IN IF r.txn_type = "debit"
       THEN IF DebitDeclined(cur, r.amount_cents)
            THEN [s EXCEPT !.rows = <<Transaction(Null, "debit", r.amount_cents, a, Null,
                                                  "declined", Null, r.card_id)>>]
            ELSE [s EXCEPT !.snap[a] = cur - r.amount_cents,
                           !.dirty = {a},
                           !.rows = <<Transaction(Null, "debit", r.amount_cents, a, Null,
                                                  "approved", Null, r.card_id)>>]
       ELSE [s EXCEPT !.snap[a] = cur + r.amount_cents,
                      !.dirty = {a},
                      !.rows = <<Transaction(Null, "credit", r.amount_cents, Null, a,
                                             "approved", Null, Null)>>]

\* lines 104-184: from the loaded row to the raise or return; the only await
\* that touches shared state is the flush
TxnBody(p) ==
    /\ pc[p] = "body"
    /\ req[p].op = "create_transaction"
    /\ LET e == TxnValidationError(req[p])
       IN IF e # "none"
          THEN /\ err' = [err EXCEPT ![p] = [kind |-> e]]
               /\ pc' = [pc EXCEPT ![p] = "raised"]
               /\ UNCHANGED <<sess, writeLock, nextUuid>>
          ELSE /\ FlushSession(p, TxnStage(sess[p], req[p]))
               /\ AfterFlush(p, TxnStage(sess[p], req[p]), req[p].account_id)
    /\ UNCHANGED <<backend, cards, account_number, balance, log, rowLock, req, ops>>

\* ---- create_transfer -----------------------------------------------------
\* the locks taken in the caller's order: source first, destination second
LockOrderAsGiven(from_account_id, to_account_id) == <<from_account_id, to_account_id>>

\* line 225: first_id, second_id = sorted([from_account_id, to_account_id])
LockOrder(from_account_id, to_account_id) ==
    IF from_account_id <= to_account_id
    THEN <<from_account_id, to_account_id>>
    ELSE <<to_account_id, from_account_id>>

\* lines 227-230
XferSelectFirst(p) ==
    /\ pc[p] = "select_first"
    /\ SelectForUpdate(p, LockOrder(req[p].from_account_id, req[p].to_account_id)[1])
    /\ pc' = [pc EXCEPT ![p] = "select_second"]
    /\ UNCHANGED <<backend, cards, account_number, balance, log, writeLock, req, err, nextUuid, ops>>

\* lines 232-235
XferSelectSecond(p) ==
    /\ pc[p] = "select_second"
    /\ SelectForUpdate(p, LockOrder(req[p].from_account_id, req[p].to_account_id)[2])
    /\ pc' = [pc EXCEPT ![p] = "body"]
    /\ UNCHANGED <<backend, cards, account_number, balance, log, writeLock, req, err, nextUuid, ops>>

\* the owner of the source is checked before the existence of the other account
XferValidationErrorOwnerFirst(r) ==
    LET order == LockOrder(r.from_account_id, r.to_account_id)
    IN IF r.from_account_id \in Accounts /\ account_holder_id(r.from_account_id) # r.account_holder_id
       THEN "UnauthorizedAccess"
       ELSE IF order[1] \notin Accounts THEN "AccountNotFound"
       ELSE IF order[2] \notin Accounts THEN "AccountNotFound"
       ELSE "none"

\* lines 237-249
XferValidationError(r) ==
    LET order == LockOrder(r.from_account_id, r.to_account_id)
    IN IF order[1] \notin Accounts THEN "AccountNotFound"
       ELSE IF order[2] \notin Accounts THEN "AccountNotFound"
       ELSE IF account_holder_id(r.from_account_id) # r.account_holder_id THEN "UnauthorizedAccess"
       ELSE "none"

\* the source is debited before the balance check, and the declined row is
\* added with the debit pending
XferStageDebitsBeforeCheck(s, r) ==
    LET order == LockOrder(r.from_account_id, r.to_account_id)
        source == IF order[1] = r.from_account_id THEN order[1] ELSE order[2]
        dest == IF order[2] = r.to_account_id THEN order[2] ELSE order[1]
    IN IF DebitDeclined(s.snap[source], r.amount_cents)
       THEN [s EXCEPT !.snap[source] = s.snap[source] - r.amount_cents,
                      !.dirty = {source},
                      !.rows = <<Transaction(Null, "debit", r.amount_cents, r.from_account_id,
                                             Null, "declined", r.transfer_pair_id, Null)>>]
       ELSE [s EXCEPT !.snap[source] = s.snap[source] - r.amount_cents,
                      !.snap[dest] = s.snap[dest] + r.amount_cents,
                      !.dirty = {source, dest},
                      !.rows = <<Transaction(Null, "debit", r.amount_cents, r.from_account_id,
                                             Null, "approved", r.transfer_pair_id, Null),
                                 Transaction(Null, "credit", r.amount_cents, Null,
                                             r.to_account_id, "approved", r.transfer_pair_id, Null)>>]

\* the credit leg is left out of the session
XferStageNoCreditLeg(s, r) ==
    LET source == r.from_account_id
        dest == r.to_account_id
    IN IF DebitDeclined(s.snap[source], r.amount_cents)
       THEN [s EXCEPT !.rows = <<Transaction(Null, "debit", r.amount_cents, r.from_account_id,
                                             Null, "declined", r.transfer_pair_id, Null)>>]
       ELSE [s EXCEPT !.snap[source] = s.snap[source] - r.amount_cents,
                      !.snap[dest] = s.snap[dest] + r.amount_cents,
                      !.dirty = {source, dest},
                      !.rows = <<Transaction(Null, "debit", r.amount_cents, r.from_account_id,
                                             Null, "approved", r.transfer_pair_id, Null)>>]

\* a declined transfer records a declined row for each of its two legs
XferStageDeclinesBothLegs(s, r) ==
    LET source == r.from_account_id
        dest == r.to_account_id
    IN IF DebitDeclined(s.snap[source], r.amount_cents)
       THEN [s EXCEPT !.rows = <<Transaction(Null, "debit", r.amount_cents, r.from_account_id,
                                             Null, "declined", r.transfer_pair_id, Null),
                                 Transaction(Null, "credit", r.amount_cents, Null,
                                             r.to_account_id, "declined", r.transfer_pair_id, Null)>>]
       ELSE [s EXCEPT !.snap[source] = s.snap[source] - r.amount_cents,
                      !.snap[dest] = s.snap[dest] + r.amount_cents,
                      !.dirty = {source, dest},
                      !.rows = <<Transaction(Null, "debit", r.amount_cents, r.from_account_id,
                                             Null, "approved", r.transfer_pair_id, Null),
                                 Transaction(Null, "credit", r.amount_cents, Null,
                                             r.to_account_id, "approved", r.transfer_pair_id, Null)>>]

\* lines 243-298: source and destination are re-derived from the ids
XferStage(s, r) ==
    LET order == LockOrder(r.from_account_id, r.to_account_id)
        source == IF order[1] = r.from_account_id THEN order[1] ELSE order[2]
        dest == IF order[2] = r.to_account_id THEN order[2] ELSE order[1]
    IN IF DebitDeclined(s.snap[source], r.amount_cents)
       THEN [s EXCEPT !.rows = <<Transaction(Null, "debit", r.amount_cents, r.from_account_id,
                                             Null, "declined", r.transfer_pair_id, Null)>>]
       ELSE [s EXCEPT !.snap[source] = s.snap[source] - r.amount_cents,
                      !.snap[dest] = s.snap[dest] + r.amount_cents,
                      !.dirty = {source, dest},
                      !.rows = <<Transaction(Null, "debit", r.amount_cents, r.from_account_id,
                                             Null, "approved", r.transfer_pair_id, Null),
                                 Transaction(Null, "credit", r.amount_cents, Null,
                                             r.to_account_id, "approved", r.transfer_pair_id, Null)>>]

\* lines 237-301: from the two loaded rows to the raise or return
XferBody(p) ==
    /\ pc[p] = "body"
    /\ req[p].op = "create_transfer"
    /\ LET e == XferValidationError(req[p])
       IN IF e # "none"
          THEN /\ err' = [err EXCEPT ![p] = [kind |-> e]]
               /\ pc' = [pc EXCEPT ![p] = "raised"]
               /\ UNCHANGED <<sess, writeLock, nextUuid>>
          ELSE /\ FlushSession(p, XferStage(sess[p], req[p]))
               /\ AfterFlush(p, XferStage(sess[p], req[p]), req[p].from_account_id)
    /\ UNCHANGED <<backend, cards, account_number, balance, log, rowLock, req, ops>>

\* ---- a client issues a request: get_db opens a session and the route
\* ---- calls the service function ----------------------------------------
\* A call that fails validation never looks at its amount; such calls are
\* issued with the largest amount only, the one the balance cannot cover.

\* TransactionCreateRequest: amount_cents: int = Field(gt=0)
TransactionCreateRequestValid(body) == body.amount_cents > 0

\* the validator accepts every pair of account ids
accounts_may_coincide(body) == TRUE

\* TransferRequest.accounts_must_differ
accounts_must_differ(body) == body.from_account_id # body.to_account_id

\* TransferRequest: amount_cents: int = Field(gt=0), then the model validator
TransferRequestValid(body) == body.amount_cents > 0 /\ accounts_must_differ(body)

\* POST /accounts/{account_id}/transactions: the route passes account_id, the
\* authenticated holder, type, amount and description, and no card_id
CallCreateTransaction(p) ==
    /\ pc[p] = "idle"
    /\ ops < MaxOps
    /\ \E account_id \in AccountIds, holder \in Holders, txn_type \in {"credit", "debit"},
          amount_cents \in Amounts :
          LET r == [op |-> "create_transaction", account_id |-> account_id,
                    account_holder_id |-> holder, txn_type |-> txn_type,
                    amount_cents |-> amount_cents, card_id |-> Null]
          IN /\ TransactionCreateRequestValid(r)
             /\ TxnValidationError(r) # "none" => amount_cents = MaxAmount
             /\ req' = [req EXCEPT ![p] = r]
    /\ pc' = [pc EXCEPT ![p] = "select"]
    /\ ops' = ops + 1
    /\ UNCHANGED <<backend, cards, account_number, balance, log, rowLock, writeLock, sess, err, nextUuid>>

\* the same endpoint posted with a card_id in the body: the schema accepts the
\* field (request_card_id) and the route does not pass it on
CallCreateTransactionWithCard(p) ==
    /\ pc[p] = "idle"
    /\ ops < MaxOps
    /\ \E account_id \in AccountIds, holder \in Holders, txn_type \in {"credit", "debit"},
          amount_cents \in Amounts, card_id \in CardIds \ {Null} :
          LET r == [op |-> "create_transaction", account_id |-> account_id,
                    account_holder_id |-> holder, txn_type |-> txn_type,
                    amount_cents |-> amount_cents, card_id |-> Null,
                    request_card_id |-> card_id]
          IN /\ TransactionCreateRequestValid(r)
             /\ TxnValidationError(r) # "none" => amount_cents = MaxAmount
             /\ req' = [req EXCEPT ![p] = r]
    /\ pc' = [pc EXCEPT ![p] = "select"]
    /\ ops' = ops + 1
    /\ UNCHANGED <<backend, cards, account_number, balance, log, rowLock, writeLock, sess, err, nextUuid>>

\* transaction_service.create_transaction called directly: with a card_id, or
\* with an amount the schema would have refused
ServiceCreateTransaction(p) ==
    /\ pc[p] = "idle"
    /\ ops < MaxOps
    /\ \E account_id \in AccountIds, holder \in Holders, txn_type \in {"credit", "debit"},
          amount_cents \in Amounts \cup NonPositiveAmounts, card_id \in CardIds :
          LET r == [op |-> "create_transaction", account_id |-> account_id,
                    account_holder_id |-> holder, txn_type |-> txn_type,
                    amount_cents |-> amount_cents, card_id |-> card_id]
          IN /\ card_id = Null => amount_cents \in NonPositiveAmounts
             /\ TxnValidationError(r) # "none" => amount_cents = MaxAmount
             /\ req' = [req EXCEPT ![p] = r]
    /\ pc' = [pc EXCEPT ![p] = "select"]
    /\ ops' = ops + 1
    /\ UNCHANGED <<backend, cards, account_number, balance, log, rowLock, writeLock, sess, err, nextUuid>>

CallCreateTransfer(p) ==
    /\ pc[p] = "idle"
    /\ ops < MaxOps
    /\ \E from_account_id \in AccountIds, to_account_id \in AccountIds, holder \in Holders,
          amount_cents \in Amounts :
          LET r == [op |-> "create_transfer", from_account_id |-> from_account_id,
                    to_account_id |-> to_account_id, account_holder_id |-> holder,
                    amount_cents |-> amount_cents,
                    transfer_pair_id |-> nextUuid]        \* uuid.uuid4()
          IN /\ TransferRequestValid(r)
             /\ XferValidationError(r) # "none" => amount_cents = MaxAmount
             /\ req' = [req EXCEPT ![p] = r]
    /\ nextUuid' = nextUuid + 1
    /\ pc' = [pc EXCEPT ![p] = "select_first"]
    /\ ops' = ops + 1
    /\ UNCHANGED <<backend, cards, account_number, balance, log, rowLock, writeLock, sess, err>>

\* transaction_service.create_transfer called directly with an amount the
\* schema would have refused; its precondition from # to is kept
ServiceCreateTransfer(p) ==
    /\ pc[p] = "idle"
    /\ ops < MaxOps
    /\ \E from_account_id \in AccountIds, to_account_id \in AccountIds, holder \in Holders,
          amount_cents \in NonPositiveAmounts :
          LET r == [op |-> "create_transfer", from_account_id |-> from_account_id,
                    to_account_id |-> to_account_id, account_holder_id |-> holder,
                    amount_cents |-> amount_cents,
                    transfer_pair_id |-> nextUuid]
          IN /\ from_account_id # to_account_id
             /\ XferValidationError(r) = "none"
             /\ req' = [req EXCEPT ![p] = r]
    /\ nextUuid' = nextUuid + 1
    /\ pc' = [pc EXCEPT ![p] = "select_first"]
    /\ ops' = ops + 1
    /\ UNCHANGED <<backend, cards, account_number, balance, log, rowLock, writeLock, sess, err>>

\* A body that fails schema validation is answered with 422 and the route is
\* never called; the session get_db may have opened holds nothing, and closing
\* it changes nothing.  The other fields of such a body are never looked at:
\* it names existing accounts and, as holder, the owner of the first.
RequestValidationError(p) ==
    /\ pc[p] = "idle"
    /\ ops < MaxOps
    /\ \/ \E account_id \in Accounts, txn_type \in {"credit", "debit"},
             amount_cents \in Amounts \cup NonPositiveAmounts :
             LET r == [op |-> "create_transaction", account_id |-> account_id,
                       account_holder_id |-> account_holder_id(account_id),
                       txn_type |-> txn_type, amount_cents |-> amount_cents,
                       card_id |-> Null]
             IN /\ ~TransactionCreateRequestValid(r)
                /\ req' = [req EXCEPT ![p] = r]
       \/ \E from_account_id \in Accounts, to_account_id \in Accounts,
             amount_cents \in Amounts \cup NonPositiveAmounts :
             LET r == [op |-> "create_transfer", from_account_id |-> from_account_id,
                       to_account_id |-> to_account_id,
                       account_holder_id |-> account_holder_id(from_account_id),
                       amount_cents |-> amount_cents, transfer_pair_id |-> Null]
             IN /\ ~TransferRequestValid(r)
                /\ req' = [req EXCEPT ![p] = r]
    /\ err' = [err EXCEPT ![p] = [kind |-> "RequestValidationError"]]
    /\ pc' = [pc EXCEPT ![p] = "raised"]
    /\ ops' = ops + 1
    /\ UNCHANGED <<backend, cards, account_number, balance, log, rowLock, writeLock, sess, nextUuid>>

\* ---- get_db: the unit of work ---------------------------------------------
BankAPIErrors == {"InsufficientFunds", "AccountNotFound", "UnauthorizedAccess",
                  "DuplicateCard"}

ReleaseLocks(p) ==
    /\ rowLock' = [a \in Accounts |-> IF rowLock[a] = p THEN NoProc ELSE rowLock[a]]
    /\ writeLock' = IF writeLock = p THEN NoProc ELSE writeLock

\* session.commit(): the UPDATEs carry the values computed in the session
\* (UPDATE accounts SET cached_balance_cents = :value), the INSERTed rows
\* become visible, and every lock of the session is released
SessionCommit(p) ==
    /\ balance' = [a \in DOMAIN balance |->
                     IF a \in sess[p].dirty THEN sess[p].snap[a] ELSE balance[a]]
                  @@ [a \in {r.id : r \in sess[p].new_accounts} |->
                        (CHOOSE r \in sess[p].new_accounts : r.id = a).cached_balance_cents]
    /\ account_number' =
          account_number
          @@ [a \in {r.id : r \in sess[p].new_accounts} |->
                (CHOOSE r \in sess[p].new_accounts : r.id = a).account_number]
    /\ log' = log \o sess[p].rows
    /\ cards' = cards \cup sess[p].new_cards
    /\ ReleaseLocks(p)

\* session.rollback(): nothing of the session becomes visible
SessionRollback(p) ==
    /\ UNCHANGED <<balance, log, cards, account_number>>
    /\ ReleaseLocks(p)

\* the response, or the re-raised exception, leaves get_db and the session is
\* closed; the client is free to issue its next request
Respond(p) ==
    /\ pc' = [pc EXCEPT ![p] = "idle"]
    /\ req' = [req EXCEPT ![p] = NoReq]
    /\ sess' = [sess EXCEPT ![p] = EmptySession]
    /\ err' = [err EXCEPT ![p] = NoErr]

\* line 73: the route returned
GetDbCommit(p) ==
    /\ pc[p] = "returned"
    /\ SessionCommit(p)
    /\ Respond(p)
    /\ UNCHANGED <<backend, nextUuid, ops>>

\* a BankAPIError handled like every other exception: rollback
GetDbBankAPIErrorRollsBack(p) ==
    /\ pc[p] = "raised"
    /\ err[p].kind \in BankAPIErrors
    /\ SessionRollback(p)
    /\ Respond(p)
    /\ UNCHANGED <<backend, nextUuid, ops>>

\* lines 74-78: a BankAPIError commits the session and is re-raised
GetDbBankAPIError(p) ==
    /\ pc[p] = "raised"
    /\ err[p].kind \in BankAPIErrors
    /\ SessionCommit(p)
    /\ Respond(p)
    /\ UNCHANGED <<backend, nextUuid, ops>>

\* the session is committed on every exit, also after an unexpected exception
GetDbExceptionCommits(p) ==
    /\ pc[p] = "raised"
    /\ err[p].kind \notin BankAPIErrors
    /\ SessionCommit(p)
    /\ Respond(p)
    /\ UNCHANGED <<backend, nextUuid, ops>>

\* lines 79-81: any other exception rolls the session back and is re-raised
GetDbException(p) ==
    /\ pc[p] = "raised"
    /\ err[p].kind \notin BankAPIErrors
    /\ SessionRollback(p)
    /\ Respond(p)
    /\ UNCHANGED <<backend, nextUuid, ops>>

\* the request fails unexpectedly or is abandoned at an await before its
\* commit has completed (cancellation, lost connection, lock timeout, failed
\* commit): the exception leaves the service call or the commit, and lines
\* 79-81, or the session's close at line 70, roll the session back
InFlight == {"select", "select_first", "select_second", "body", "returned", "raised",
             "read_account", "sum_credits", "sum_debits",
             "card_account", "card_existing", "card_flush",
             "generate", "account_flush", "statement"}

Fail(p) ==
    /\ pc[p] \in InFlight
    /\ err[p].kind # "Exception"
    /\ err' = [err EXCEPT ![p] = [kind |-> "Exception"]]
    /\ pc' = [pc EXCEPT ![p] = "raised"]
    /\ UNCHANGED <<backend, cards, account_number, balance, log, rowLock, writeLock, req, sess, nextUuid, ops>>

Next ==
    \E p \in Procs :
        \/ CallCreateTransaction(p)
        \/ CallCreateTransfer(p)
        \/ RequestValidationError(p)
        \/ TxnSelect(p)
        \/ TxnBody(p)
        \/ XferSelectFirst(p)
        \/ XferSelectSecond(p)
        \/ XferBody(p)
        \/ GetDbCommit(p)
        \/ GetDbBankAPIError(p)
        \/ GetDbException(p)
        \/ Fail(p)

Spec == Init /\ [][Next]_vars

\* the service functions are also called directly, with a card_id or with a
\* non-positive amount
ServiceNext ==
    \/ Next
    \/ \E p \in Procs : ServiceCreateTransaction(p)
    \/ \E p \in Procs : ServiceCreateTransfer(p)

ServiceSpec == Init /\ [][ServiceNext]_vars

\* ---- get_balance (app/services/account_service.py) -----------------------
\* The call's locals total_credits and total_debits are kept with its
\* arguments in req; seen records the length of the committed log at each of
\* its reads (every committed write appends to the log).
\* GET /accounts/{account_id}/balance
CallGetBalance(p) ==
    /\ pc[p] = "idle"
    /\ \E account_id \in AccountIds, holder \in Holders :
          req' = [req EXCEPT ![p] =
                    [op |-> "get_balance", account_id |-> account_id,
                     account_holder_id |-> holder, total_credits |-> NotLoaded,
                     total_debits |-> NotLoaded, seen |-> {}]]
    /\ pc' = [pc EXCEPT ![p] = "read_account"]
    /\ UNCHANGED <<backend, cards, account_number, balance, log, rowLock, writeLock, sess, err, nextUuid, ops>>

\* lines 122-131: get_account loads the row without a lock and checks the owner
GetBalanceAccount(p) ==
    /\ pc[p] = "read_account"
    /\ LET a == req[p].account_id
       IN IF a \notin Accounts
          THEN /\ err' = [err EXCEPT ![p] = [kind |-> "AccountNotFound"]]
               /\ pc' = [pc EXCEPT ![p] = "raised"]
               /\ UNCHANGED <<sess, req>>
          ELSE IF account_holder_id(a) # req[p].account_holder_id
          THEN /\ err' = [err EXCEPT ![p] = [kind |-> "UnauthorizedAccess"]]
               /\ pc' = [pc EXCEPT ![p] = "raised"]
               /\ UNCHANGED <<sess, req>>
          ELSE /\ sess' = [sess EXCEPT ![p].snap[a] = balance[a]]
               /\ req' = [req EXCEPT ![p].seen = @ \cup {Len(log)}]
               /\ pc' = [pc EXCEPT ![p] = "sum_credits"]
               /\ err' = err
    /\ UNCHANGED <<backend, cards, account_number, balance, log, rowLock, writeLock, nextUuid, ops>>

\* lines 179-184: SUM(amount_cents) of the approved credits to the account
RECURSIVE total_credits(_, _)
total_credits(rows, account_id) ==
    IF rows = <<>> THEN 0
    ELSE (IF /\ Head(rows).to_account_id = account_id
             /\ Head(rows).status = "approved"
             /\ Head(rows).type = "credit"
          THEN Head(rows).amount_cents ELSE 0) + total_credits(Tail(rows), account_id)

\* lines 188-193: SUM(amount_cents) of the approved debits from the account
RECURSIVE total_debits(_, _)
total_debits(rows, account_id) ==
    IF rows = <<>> THEN 0
    ELSE (IF /\ Head(rows).from_account_id = account_id
             /\ Head(rows).status = "approved"
             /\ Head(rows).type = "debit"
          THEN Head(rows).amount_cents ELSE 0) + total_debits(Tail(rows), account_id)

\* lines 179-185
GetBalanceCredits(p) ==
    /\ pc[p] = "sum_credits"
    /\ req' = [req EXCEPT ![p].total_credits = total_credits(log, req[p].account_id),
                          ![p].seen = @ \cup {Len(log)}]
    /\ pc' = [pc EXCEPT ![p] = "sum_debits"]
    /\ UNCHANGED <<backend, cards, account_number, balance, log, rowLock, writeLock, sess, err, nextUuid, ops>>

\* on a mismatch the cached balance is set to the computed one
GetBalanceDebitsRepairs(p) ==
    /\ pc[p] = "sum_debits"
    /\ LET a == req[p].account_id
           computed == req[p].total_credits - total_debits(log, a)
       IN /\ req' = [req EXCEPT ![p].total_debits = total_debits(log, a),
                                ![p].seen = @ \cup {Len(log)}]
          /\ sess' = IF sess[p].snap[a] # computed
                     THEN [sess EXCEPT ![p].snap[a] = computed, ![p].dirty = {a}]
                     ELSE sess
    /\ pc' = [pc EXCEPT ![p] = "returned"]
    /\ UNCHANGED <<backend, cards, account_number, balance, log, rowLock, writeLock, err, nextUuid, ops>>

\* lines 188-196 and 152-158: the second sum, then the result is returned
GetBalanceDebits(p) ==
    /\ pc[p] = "sum_debits"
    /\ req' = [req EXCEPT ![p].total_debits = total_debits(log, req[p].account_id),
                          ![p].seen = @ \cup {Len(log)}]
    /\ pc' = [pc EXCEPT ![p] = "returned"]
    /\ UNCHANGED <<backend, cards, account_number, balance, log, rowLock, writeLock, sess, err, nextUuid, ops>>

\* lines 152-158: the dict get_balance returns
BalanceResult(p) ==
    LET cached == sess[p].snap[req[p].account_id]
        computed == req[p].total_credits - req[p].total_debits
    IN [cached_balance_cents |-> cached, computed_balance_cents |-> computed,
        match |-> (cached = computed)]

\* the balance endpoint is called as well
BalanceNext ==
    \/ Next
    \/ \E p \in Procs : CallGetBalance(p)
    \/ \E p \in Procs : GetBalanceAccount(p)
    \/ \E p \in Procs : GetBalanceCredits(p)
    \/ \E p \in Procs : GetBalanceDebits(p)

BalanceSpec == Init /\ [][BalanceNext]_vars

\* ---- issue_card (app/services/card_service.py) ---------------------------
\* POST /accounts/{account_id}/card
CallIssueCard(p) ==
    /\ pc[p] = "idle"
    /\ ops < MaxOps
    /\ \E account_id \in AccountIds, holder \in Holders :
          req' = [req EXCEPT ![p] = [op |-> "issue_card", account_id |-> account_id,
                                    account_holder_id |-> holder]]
    /\ pc' = [pc EXCEPT ![p] = "card_account"]
    /\ ops' = ops + 1
    /\ UNCHANGED <<backend, cards, account_number, balance, log, rowLock, writeLock, sess, err, nextUuid>>

\* lines 68-77: the account is loaded and its owner checked
IssueCardAccount(p) ==
    /\ pc[p] = "card_account"
    /\ LET a == req[p].account_id
       IN IF a \notin Accounts
          THEN /\ err' = [err EXCEPT ![p] = [kind |-> "AccountNotFound"]]
               /\ pc' = [pc EXCEPT ![p] = "raised"]
          ELSE IF account_holder_id(a) # req[p].account_holder_id
          THEN /\ err' = [err EXCEPT ![p] = [kind |-> "UnauthorizedAccess"]]
               /\ pc' = [pc EXCEPT ![p] = "raised"]
          ELSE /\ err' = err
               /\ pc' = [pc EXCEPT ![p] = "card_existing"]
    /\ UNCHANGED <<backend, cards, account_number, balance, log, rowLock, writeLock, req, sess, nextUuid, ops>>

\* lines 79-84: the committed card of the account, if any, refuses the call
IssueCardExisting(p) ==
    /\ pc[p] = "card_existing"
    /\ IF \E c \in cards : c.account_id = req[p].account_id
       THEN /\ err' = [err EXCEPT ![p] = [kind |-> "DuplicateCard"]]
            /\ pc' = [pc EXCEPT ![p] = "raised"]
       ELSE /\ err' = err
            /\ pc' = [pc EXCEPT ![p] = "card_flush"]
    /\ UNCHANGED <<backend, cards, account_number, balance, log, rowLock, writeLock, req, sess, nextUuid, ops>>

\* the INSERT of an account_id waits for the open transaction that has
\* inserted the same account_id: on PostgreSQL at the unique index, on SQLite
\* at the database write lock
CanInsertCard(p, account_id) ==
    /\ CanFlush(p)
    /\ \A q \in Procs \ {p} : \A c \in sess[q].new_cards : c.account_id # account_id

\* column account_id declared without unique=True
CardAccountIdNotUnique(account_id) == TRUE

\* models/card.py lines 42-48: UNIQUE (account_id)
uq_cards_account_id(account_id) == \A c \in cards : c.account_id # account_id

\* lines 86-102: the card is added and flushed; the INSERT raises
\* IntegrityError when a card of the account has been committed meanwhile
IssueCardFlush(p) ==
    /\ pc[p] = "card_flush"
    /\ CanInsertCard(p, req[p].account_id)
    /\ writeLock' = IF backend = "sqlite" THEN p ELSE writeLock
    /\ IF uq_cards_account_id(req[p].account_id)
       THEN /\ sess' = [sess EXCEPT ![p].new_cards = {Card(nextUuid, req[p].account_id, TRUE)}]
            /\ nextUuid' = nextUuid + 1
            /\ err' = err
            /\ pc' = [pc EXCEPT ![p] = "returned"]
       ELSE /\ err' = [err EXCEPT ![p] = [kind |-> "Exception"]]
            /\ pc' = [pc EXCEPT ![p] = "raised"]
            /\ UNCHANGED <<sess, nextUuid>>
    /\ UNCHANGED <<backend, cards, account_number, balance, log, rowLock, req, ops>>

\* both accounts exist and are funded, no card has been issued yet
CardInit ==
    /\ backend \in Backends
    /\ balance = [a \in Accounts |-> OpeningDeposit]
    /\ log = [a \in 1..2 |-> Transaction(a, "credit", OpeningDeposit, Null, a, "approved", Null, Null)]
    /\ rowLock = [a \in Accounts |-> NoProc]
    /\ writeLock = NoProc
    /\ pc = [p \in Procs |-> "idle"]
    /\ req = [p \in Procs |-> NoReq]
    /\ sess = [p \in Procs |-> EmptySession]
    /\ err = [p \in Procs |-> NoErr]
    /\ nextUuid = 3
    /\ ops = 0
    /\ cards = {}
    /\ account_number = [a \in Accounts |-> a]

\* cards are issued while the ledger is in use
CardNext ==
    \/ Next
    \/ \E p \in Procs : CallIssueCard(p)
    \/ \E p \in Procs : IssueCardAccount(p)
    \/ \E p \in Procs : IssueCardExisting(p)
    \/ \E p \in Procs : IssueCardFlush(p)

CardSpec == CardInit /\ [][CardNext]_vars

\* ---- create_account (app/services/account_service.py) --------------------
\* _generate_account_number draws a random number
AccountNumbers == 1..MaxAccountNumber

\* line 66: for _ in range(10)
AccountNumberAttempts == 10

Account(id, holder, number, cached_balance_cents) ==
    [id |-> id, account_holder_id |-> holder, account_number |-> number,
     cached_balance_cents |-> cached_balance_cents]

\* POST /accounts
CallCreateAccount(p) ==
    /\ pc[p] = "idle"
    /\ ops < MaxOps
    /\ \E holder \in Holders :
          req' = [req EXCEPT ![p] = [op |-> "create_account", account_holder_id |-> holder,
                                    attempts |-> 0, account_number |-> Null]]
    /\ pc' = [pc EXCEPT ![p] = "generate"]
    /\ ops' = ops + 1
    /\ UNCHANGED <<backend, cards, account_number, balance, log, rowLock, writeLock, sess, err, nextUuid>>

\* lines 66-75: one iteration of the loop: a number is generated and looked
\* up among the committed accounts; a free number leaves the loop, the tenth
\* collision in a row raises RuntimeError
CreateAccountGenerate(p) ==
    /\ pc[p] = "generate"
    /\ \E number \in AccountNumbers :
          /\ req' = [req EXCEPT ![p].attempts = @ + 1, ![p].account_number = number]
          /\ IF \A a \in DOMAIN account_number : account_number[a] # number
             THEN /\ pc' = [pc EXCEPT ![p] = "account_flush"]
                  /\ err' = err
             ELSE IF req[p].attempts + 1 = AccountNumberAttempts
             THEN /\ err' = [err EXCEPT ![p] = [kind |-> "RuntimeError"]]
                  /\ pc' = [pc EXCEPT ![p] = "raised"]
             ELSE /\ pc' = pc
                  /\ err' = err
    /\ UNCHANGED <<backend, cards, account_number, balance, log, rowLock, writeLock, sess, nextUuid, ops>>

\* the INSERT of an account_number waits for the open transaction that has
\* inserted the same number
CanInsertAccount(p, number) ==
    /\ CanFlush(p)
    /\ \A q \in Procs \ {p} : \A r \in sess[q].new_accounts : r.account_number # number

\* column account_number declared without unique=True
AccountNumberNotUnique(number) == TRUE

\* models/account.py lines 70-74: UNIQUE (account_number)
uq_accounts_account_number(number) ==
    \A a \in DOMAIN account_number : account_number[a] # number

\* lines 77-84: the account is added with the default balance 0 and flushed;
\* the INSERT raises IntegrityError when the number has been committed meanwhile
CreateAccountFlush(p) ==
    /\ pc[p] = "account_flush"
    /\ CanInsertAccount(p, req[p].account_number)
    /\ writeLock' = IF backend = "sqlite" THEN p ELSE writeLock
    /\ IF uq_accounts_account_number(req[p].account_number)
       THEN /\ sess' = [sess EXCEPT ![p].new_accounts =
                          {Account(nextUuid, req[p].account_holder_id,
                                   req[p].account_number, 0)}]
            /\ nextUuid' = nextUuid + 1
            /\ err' = err
            /\ pc' = [pc EXCEPT ![p] = "returned"]
       ELSE /\ err' = [err EXCEPT ![p] = [kind |-> "Exception"]]
            /\ pc' = [pc EXCEPT ![p] = "raised"]
            /\ UNCHANGED <<sess, nextUuid>>
    /\ UNCHANGED <<backend, cards, account_number, balance, log, rowLock, req, ops>>

\* accounts are opened
AccountNext ==
    \E p \in Procs :
        \/ CallCreateAccount(p)
        \/ CreateAccountGenerate(p)
        \/ CreateAccountFlush(p)
        \/ GetDbCommit(p)
        \/ GetDbException(p)
        \/ Fail(p)

AccountSpec == Init /\ [][AccountNext]_vars

\* ---- generate_statement (app/services/statement_service.py) --------------
\* Transaction.created_at is kept as <<year, month>>: the statement compares
\* it with the first instants of months only.
StatementYears == 1..2
StatementMonths == {1, 11, 12}
Timestamps == {<<1, 11>>, <<1, 12>>, <<2, 1>>}

\* created_at < bound
Before(created_at, bound) ==
    \/ created_at[1] < bound[1]
    \/ created_at[1] = bound[1] /\ created_at[2] < bound[2]

\* line 67: datetime(year, month, 1)
month_start(year, month) == <<year, month>>

\* lines 68-71: the first instant of the next month
month_end(year, month) ==
    IF month = 12 THEN <<year + 1, 1>> ELSE <<year, month + 1>>

RECURSIVE SumAmounts(_)
SumAmounts(rows) ==
    IF rows = <<>> THEN 0 ELSE Head(rows).amount_cents + SumAmounts(Tail(rows))

\* lines 75-85: approved rows to the account before the month
pre_credits(rows, account_id, start) ==
    SumAmounts(SelectSeq(rows, LAMBDA t : /\ t.to_account_id = account_id
                                          /\ t.status = "approved"
                                          /\ Before(t.created_at, start)))

\* lines 87-97: approved rows from the account before the month
pre_debits(rows, account_id, start) ==
    SumAmounts(SelectSeq(rows, LAMBDA t : /\ t.from_account_id = account_id
                                          /\ t.status = "approved"
                                          /\ Before(t.created_at, start)))

\* line 114: ORDER BY created_at ASC
RECURSIVE order_by_created_at(_)
order_by_created_at(rows) ==
    IF rows = <<>> THEN <<>>
    ELSE LET first == CHOOSE i \in 1..Len(rows) :
                        \A j \in 1..Len(rows) :
                            /\ ~Before(rows[j].created_at, rows[i].created_at)
                            /\ (rows[j].created_at = rows[i].created_at => i <= j)
         IN <<rows[first]>> \o order_by_created_at(
                [k \in 1..(Len(rows) - 1) |-> IF k < first THEN rows[k] ELSE rows[k + 1]])

\* lines 102-116: the rows of the account in the month, whatever their status
month_transactions(rows, account_id, start, end) ==
    order_by_created_at(
        SelectSeq(rows, LAMBDA t : /\ (t.from_account_id = account_id \/ t.to_account_id = account_id)
                                   /\ ~Before(t.created_at, start)
                                   /\ Before(t.created_at, end)))

\* the month's debits summed whatever their status
month_debits_any_status(transactions, account_id) ==
    SumAmounts(SelectSeq(transactions, LAMBDA t : t.from_account_id = account_id))

\* lines 123-126
month_debits(transactions, account_id) ==
    SumAmounts(SelectSeq(transactions, LAMBDA t : /\ t.from_account_id = account_id
                                                  /\ t.status = "approved"))

\* lines 119-122
month_credits(transactions, account_id) ==
    SumAmounts(SelectSeq(transactions, LAMBDA t : /\ t.to_account_id = account_id
                                                  /\ t.status = "approved"))

\* lines 66-140: the dict generate_statement returns
generate_statement(rows, account_id, year, month) ==
    LET start == month_start(year, month)
        end == month_end(year, month)
        opening_balance == pre_credits(rows, account_id, start) - pre_debits(rows, account_id, start)
        transactions == month_transactions(rows, account_id, start, end)
        total_credits_cents == month_credits(transactions, account_id)
        total_debits_cents == month_debits(transactions, account_id)
    IN [account_id |-> account_id, year |-> year, month |-> month,
        opening_balance_cents |-> opening_balance,
        closing_balance_cents |-> opening_balance + total_credits_cents - total_debits_cents,
        total_credits_cents |-> total_credits_cents,
        total_debits_cents |-> total_debits_cents,
        transaction_count |-> Len(transactions),
        transactions |-> transactions]

\* GET /accounts/{account_id}/statements?year=&month=
CallGenerateStatement(p) ==
    /\ pc[p] = "idle"
    /\ \E account_id \in AccountIds, holder \in Holders,
          year \in StatementYears, month \in StatementMonths :
          /\ (account_id \notin Accounts \/ account_holder_id(account_id) # holder)
               => (year = 1 /\ month = 1)
          /\ req' = [req EXCEPT ![p] =
                       [op |-> "generate_statement", account_id |-> account_id,
                        account_holder_id |-> holder, year |-> year, month |-> month,
                        statement |-> Null]]
    /\ pc' = [pc EXCEPT ![p] = "statement"]
    /\ UNCHANGED <<backend, cards, account_number, balance, log, rowLock, writeLock, sess, err, nextUuid, ops>>

\* lines 55-140: the ownership check and the three queries; no request writes
\* the ledger while statements are generated
GenerateStatement(p) ==
    /\ pc[p] = "statement"
    /\ LET a == req[p].account_id
       IN IF a \notin Accounts
          THEN /\ err' = [err EXCEPT ![p] = [kind |-> "AccountNotFound"]]
               /\ pc' = [pc EXCEPT ![p] = "raised"]
               /\ req' = req
          ELSE IF account_holder_id(a) # req[p].account_holder_id
          THEN /\ err' = [err EXCEPT ![p] = [kind |-> "UnauthorizedAccess"]]
               /\ pc' = [pc EXCEPT ![p] = "raised"]
               /\ req' = req
          ELSE /\ req' = [req EXCEPT ![p].statement =
                                generate_statement(log, a, req[p].year, req[p].month)]
               /\ pc' = [pc EXCEPT ![p] = "returned"]
               /\ err' = err
    /\ UNCHANGED <<backend, cards, account_number, balance, log, rowLock, writeLock, sess, nextUuid, ops>>

\* the rows create_transaction and create_transfer write, with their created_at
StatementRows ==
    { [id |-> Null, type |-> k[1], amount_cents |-> amount,
       from_account_id |-> (IF k[1] = "debit" THEN a ELSE Null),
       to_account_id |-> (IF k[1] = "credit" THEN a ELSE Null),
       status |-> k[2], transfer_pair_id |-> Null, card_id |-> Null, created_at |-> c] :
      k \in {<<"credit", "approved">>, <<"debit", "approved">>, <<"debit", "declined">>},
      amount \in Amounts, a \in Accounts, c \in Timestamps }

\* ledgers in commit order: timestamps do not decrease, no approved debit
\* exceeds the balance it was checked against, a declined one does
StatementLedgers ==
    { rows \in UNION {[1..n -> StatementRows] : n \in 0..MaxRows} :
        \A i \in 1..Len(rows) :
            /\ i > 1 => ~Before(rows[i].created_at, rows[i - 1].created_at)
            /\ rows[i].type = "debit" =>
                 ( rows[i].status = "declined" <=>
                   DebitDeclined(compute_balance_from_transactions(
                                     SubSeq(rows, 1, i - 1), rows[i].from_account_id),
                                 rows[i].amount_cents) ) }

\* a ledger has been written, one request after the other
StatementInit ==
    /\ backend \in Backends
    /\ \E rows \in StatementLedgers : log = WithIds(rows, 1)
    /\ balance = [a \in Accounts |-> compute_balance_from_transactions(log, a)]
    /\ rowLock = [a \in Accounts |-> NoProc]
    /\ writeLock = NoProc
    /\ pc = [p \in Procs |-> "idle"]
    /\ req = [p \in Procs |-> NoReq]
    /\ sess = [p \in Procs |-> EmptySession]
    /\ err = [p \in Procs |-> NoErr]
    /\ nextUuid = Len(log) + 1
    /\ ops = 0
    /\ cards = {}
    /\ account_number = [a \in Accounts |-> a]

\* statements are requested
StatementNext ==
    \E p \in Procs :
        \/ CallGenerateStatement(p)
        \/ GenerateStatement(p)
        \/ GetDbCommit(p)
        \/ GetDbBankAPIError(p)

StatementSpec == StatementInit /\ [][StatementNext]_vars

\* the create-transaction endpoint is also posted with a card_id in the body
CardRequestNext == Next \/ \E p \in Procs : CallCreateTransactionWithCard(p)

CardRequestSpec == Init /\ [][CardRequestNext]_vars

\* every step of a request except its issue and its unexpected failure
Progress(p) ==
    \/ TxnSelect(p)
    \/ TxnBody(p)
    \/ XferSelectFirst(p)
    \/ XferSelectSecond(p)
    \/ XferBody(p)
    \/ GetDbCommit(p)
    \/ GetDbBankAPIError(p)
    \/ GetDbException(p)

\* the event loop and the database run every request that can take a step
FairSpec == Init /\ [][Next]_vars /\ \A p \in Procs : WF_vars(Progress(p))

\* ======================================================================
\* Properties
\* ======================================================================

\* C1: in every committed state every account's cached_balance_cents is >= 0,
\* whatever the interleaving of credits, debits and transfers.
NonNegativeBalance == \A a \in Accounts : balance[a] >= 0

\* an approved debit has been committed and emptied its account
DebitEmptiedAccount ==
    \E i \in DOMAIN log :
        /\ log[i].type = "debit"
        /\ log[i].status = "approved"
        /\ balance[log[i].from_account_id] = 0

\* C2: in every committed state every account's cached balance equals the
\* approved credits to it minus the approved debits from it.
BalanceConsistency ==
    \A a \in Accounts : balance[a] = compute_balance_from_transactions(log, a)


\* the process that takes the step
Acts(p) == pc'[p] # pc[p] \/ err'[p] # err[p]

\* the step in which get_db commits the session of a call that returned
CommitsReturn(p) == pc[p] = "returned" /\ pc'[p] = "idle"

\* the step in which get_db finishes the request: commit or rollback
Finishes(p) == pc[p] # "idle" /\ pc'[p] = "idle"

RECURSIVE SumBalances(_, _)
SumBalances(b, S) ==
    IF S = {} THEN 0
    ELSE LET a == CHOOSE x \in S : TRUE IN b[a] + SumBalances(b, S \ {a})

Total(b) == SumBalances(b, Accounts)

\* C3: no create_transfer call changes the sum of the cached balances; the sum
\* changes only by +amount at an approved single-account credit and by -amount
\* at an approved single-account debit.
ConservationOfTotal ==
    [][\A p \in Procs : Acts(p) =>
          IF CommitsReturn(p) /\ req[p].op = "create_transaction"
          THEN Total(balance') = Total(balance)
                    + (IF req[p].txn_type = "credit" THEN req[p].amount_cents
                       ELSE 0 - req[p].amount_cents)
          ELSE Total(balance') = Total(balance)]_vars

\* C4: an approved transfer leg never exists without its approved partner leg
\* (same pair id, same amount, opposite type).
PairedLegs ==
    \A i \in DOMAIN log :
        (log[i].status = "approved" /\ log[i].transfer_pair_id # Null) =>
            \E j \in DOMAIN log :
                /\ j # i
                /\ log[j].transfer_pair_id = log[i].transfer_pair_id
                /\ log[j].status = "approved"
                /\ log[j].amount_cents = log[i].amount_cents
                /\ log[j].type # log[i].type

\* C4: a successful transfer makes its two rows and its two balance updates
\* visible in one step; a failing transfer adds no row or one declined row and
\* changes no balance; no other step of a transfer changes committed state.
TransferStep ==
    \A p \in Procs : (Acts(p) /\ req[p].op = "create_transfer") =>
        IF CommitsReturn(p)
        THEN /\ Len(log') = Len(log) + 2
             /\ \A k \in 1..2 : log'[Len(log) + k].transfer_pair_id = req[p].transfer_pair_id
                                /\ log'[Len(log) + k].status = "approved"
             /\ \A a \in {req[p].from_account_id, req[p].to_account_id} :
                    balance'[a] = sess[p].snap[a]
        ELSE IF Finishes(p)
        THEN /\ balance' = balance
             /\ \/ log' = log
                \/ /\ Len(log') = Len(log) + 1
                   /\ log'[Len(log')].status = "declined"
                   /\ \A i \in DOMAIN log : log'[i] = log[i]
        ELSE UNCHANGED <<balance, log>>

TransferAtomicity == []PairedLegs /\ [][TransferStep]_vars

\* one transfer was declined for insufficient funds and another was approved
DeclinedAndApprovedTransfer ==
    /\ \A p \in Procs : pc[p] = "idle"
    /\ \E i \in DOMAIN log : log[i].status = "approved" /\ log[i].transfer_pair_id # Null
    /\ \E i \in DOMAIN log : log[i].status = "declined" /\ log[i].transfer_pair_id # Null

\* p is blocked on a lock that q holds
WaitsFor(p, q) ==
    /\ p # q
    /\ \/ /\ pc[p] = "select"
          /\ ~CanSelectForUpdate(p, req[p].account_id)
          /\ rowLock[req[p].account_id] = q
       \/ /\ pc[p] = "select_first"
          /\ ~CanSelectForUpdate(p, LockOrder(req[p].from_account_id, req[p].to_account_id)[1])
          /\ rowLock[LockOrder(req[p].from_account_id, req[p].to_account_id)[1]] = q
       \/ /\ pc[p] = "select_second"
          /\ ~CanSelectForUpdate(p, LockOrder(req[p].from_account_id, req[p].to_account_id)[2])
          /\ rowLock[LockOrder(req[p].from_account_id, req[p].to_account_id)[2]] = q
       \/ /\ pc[p] = "body"
          /\ ~CanFlush(p)
          /\ writeLock = q

NoCrossWait == \A p, q \in Procs : ~(WaitsFor(p, q) /\ WaitsFor(q, p))

\* C5: no two operations ever wait for each other's locks, and under fair
\* scheduling every started operation reaches its response (approved,
\* declined or error).
DeadlockFreedom ==
    /\ []NoCrossWait
    /\ \A p \in Procs : (pc[p] \in InFlight) ~> (pc[p] = "idle")

\* transfers in opposite directions over the same pair, one holding the first
\* lock and the other blocked on it
OppositeTransfersContend ==
    \E p, q \in Procs :
        /\ WaitsFor(p, q)
        /\ req[p].op = "create_transfer"
        /\ req[q].op = "create_transfer"
        /\ req[p].from_account_id = req[q].to_account_id
        /\ req[p].to_account_id = req[q].from_account_id

\* ---- serial replay of the committed log ---------------------------------
\* The rows of one request are adjacent in the log.  A unit is the row, or
\* the two rows with one transfer_pair_id, that one request committed.
SameUnit(i, j) ==
    /\ log[i].transfer_pair_id # Null
    /\ log[i].transfer_pair_id = log[j].transfer_pair_id

UnitStarts == {i \in DOMAIN log : i = 1 \/ ~SameUnit(i - 1, i)}

UnitRows(i) == IF i + 1 \in DOMAIN log /\ SameUnit(i, i + 1) THEN {i, i + 1} ELSE {i}

\* would a request run alone on balances b commit the unit that starts at i
CanReplay(i, b) ==
    LET t == log[i]
    IN IF t.type = "credit"
       THEN t.transfer_pair_id = Null
       ELSE IF t.status = "declined"
            THEN b[t.from_account_id] < t.amount_cents
            ELSE /\ b[t.from_account_id] >= t.amount_cents
                 /\ t.transfer_pair_id # Null =>
                        /\ UnitRows(i) = {i, i + 1}
                        /\ log[i + 1].type = "credit"
                        /\ log[i + 1].status = "approved"
                        /\ log[i + 1].amount_cents = t.amount_cents

Replay(i, b) ==
    [a \in Accounts |->
        b[a] + Contribution(log[i], a)
             + (IF UnitRows(i) = {i} THEN 0 ELSE Contribution(log[i + 1], a))]

RECURSIVE SerialFrom(_, _)
SerialFrom(remaining, b) ==
    IF remaining = {} THEN b = balance
    ELSE \E i \in remaining : CanReplay(i, b) /\ SerialFrom(remaining \ {i}, Replay(i, b))

\* C6: the committed balances and log are those of running the committed
\* requests one at a time in some order, starting from empty accounts.
Serializable == SerialFrom(UnitStarts, [a \in Accounts |-> 0])

\* p has read the balance of account a and has not yet committed or rolled back
InCriticalSection(p, a) ==
    /\ pc[p] \in {"select_second", "body", "returned", "raised"}
    /\ sess[p].snap[a] # NotLoaded

\* C7: for every account at most one in-flight operation is between reading
\* the account's balance and its commit or rollback.
MutualExclusion ==
    \A a \in Accounts : \A p, q \in Procs :
        (InCriticalSection(p, a) /\ InCriticalSection(q, a)) => p = q

\* C8: a declined single-account debit leaves the balance unchanged, adds
\* exactly one row (debit, declined, from the account, the requested amount)
\* and reports requested = amount and available = that unchanged balance.
DeclinedDebitNeutral ==
    [][\A p \in Procs :
          (/\ Finishes(p)
           /\ req[p].op = "create_transaction"
           /\ err[p].kind = "InsufficientFunds") =>
              /\ balance' = balance
              /\ Len(log') = Len(log) + 1
              /\ \A i \in DOMAIN log : log'[i] = log[i]
              /\ LET t == log'[Len(log')]
                 IN /\ t.type = "debit"
                    /\ t.status = "declined"
                    /\ t.from_account_id = req[p].account_id
                    /\ t.to_account_id = Null
                    /\ t.amount_cents = req[p].amount_cents
              /\ err[p].requested_cents = req[p].amount_cents
              /\ err[p].available_cents = balance[req[p].account_id]]_vars

\* the step in which get_db re-raises InsufficientFundsError to its caller
\* (an unexpected failure would first have replaced the exception)
DeliversDecline(p) ==
    /\ pc[p] = "raised"
    /\ err[p].kind = "InsufficientFunds"
    /\ pc'[p] = "idle"

\* the declined row of p's request is in the committed log
DeclinedRowCommitted(p) ==
    /\ Len(sess[p].rows) = 1
    /\ sess[p].rows[1].status = "declined"
    /\ \E i \in DOMAIN log' : log'[i] = sess[p].rows[1]

\* committed rows stay in the log
LogOnlyGrows == \A i \in DOMAIN log : i \in DOMAIN log' /\ log'[i] = log[i]

ErrorStep ==
    \A p \in Procs : Finishes(p) =>
        IF err[p].kind \in {"AccountNotFound", "UnauthorizedAccess", "HTTPException"}
        THEN UNCHANGED <<balance, log>>
        ELSE IF err[p].kind = "InsufficientFunds"
        THEN /\ balance' = balance
             /\ Len(log') = Len(log) + 1
             /\ \A i \in DOMAIN log : log'[i] = log[i]
             /\ log'[Len(log')].status = "declined"
        ELSE TRUE

NewRows == {log'[i] : i \in (DOMAIN log') \ (DOMAIN log)}

\* the source of p's request: the account of a single-account call, the
\* from-account of a transfer
SourceOf(r) == IF r.op = "create_transfer" THEN r.from_account_id ELSE r.account_id

\* p's call names existing accounts only and its requester does not own the source
ForeignSource(p) ==
    /\ req[p].op \in {"create_transaction", "create_transfer"}
    /\ SourceOf(req[p]) \in Accounts
    /\ req[p].op = "create_transfer" => req[p].to_account_id \in Accounts
    /\ account_holder_id(SourceOf(req[p])) # req[p].account_holder_id

\* a step that lowers the balance of a, or adds a row that debits a or is a
\* single-account credit to a, finishes a call of the holder of a
OwnerOnly ==
    \A a \in Accounts :
        (\/ balance'[a] < balance[a]
         \/ \E t \in NewRows : \/ t.from_account_id = a
                                \/ (t.to_account_id = a /\ t.transfer_pair_id = Null)) =>
            \E p \in Procs : /\ Finishes(p)
                              /\ req[p].op \in {"create_transaction", "create_transfer"}
                              /\ req[p].account_holder_id = account_holder_id(a)

\* a call on a foreign source never returns, raises nothing but
\* UnauthorizedAccess (or fails unexpectedly) and finishes without effect
ForeignSourceRefused ==
    \A p \in Procs : ForeignSource(p) =>
        /\ pc[p] # "returned"
        /\ pc[p] = "raised" => err[p].kind \in {"UnauthorizedAccess", "Exception"}
        /\ Finishes(p) => UNCHANGED <<balance, log>>

\* C11: only a call of the account's holder lowers its balance or adds a row
\* that debits it or is a single-account credit to it; a call whose source is
\* owned by someone else raises UnauthorizedAccess and changes nothing.
OwnershipEnforced == [][OwnerOnly /\ ForeignSourceRefused]_vars

\* the step in which get_db commits the outcome of a call that reached the
\* balance check: it returned, or it raised InsufficientFundsError
CommitsOutcome(p) ==
    /\ Finishes(p)
    /\ \/ pc[p] = "returned"
       \/ pc[p] = "raised" /\ err[p].kind = "InsufficientFunds"

\* C12: a create_transaction call that got past its validation leaves exactly
\* one new row, and the account's balance has changed, to its previous value
\* plus or minus the amount, if and only if that row is approved.
OneRowPerTransaction ==
    [][\A p \in Procs :
          (CommitsOutcome(p) /\ req[p].op = "create_transaction") =>
              /\ Len(log') = Len(log) + 1
              /\ \A i \in DOMAIN log : log'[i] = log[i]
              /\ LET t == log'[Len(log')]
                     a == req[p].account_id
                 IN /\ t.status \in {"approved", "declined"}
                    /\ t.status = "approved" <=> balance'[a] # balance[a]
                    /\ balance'[a] = balance[a] + Contribution(t, a)
                    /\ \A b \in Accounts \ {a} : balance'[b] = balance[b]]_vars

\* C13: a transfer between distinct existing accounts, from a source the
\* requester owns and whose balance covers the amount, is not declined; it
\* lowers the source by the amount, raises the destination by the amount,
\* changes no other account and adds exactly two rows with one fresh pair id:
\* an approved debit from the source and an approved credit to the destination.
TransferPostcondition ==
    [][\A p \in Procs :
          (req[p].op = "create_transfer" /\ Finishes(p)) =>
              LET S == req[p].from_account_id
                  D == req[p].to_account_id
                  amount == req[p].amount_cents
                  n == Len(log)
              IN /\ (pc[p] = "raised" /\ err[p].kind = "InsufficientFunds") => balance[S] < amount
                 /\ pc[p] = "returned" =>
                       /\ balance[S] >= amount
                       /\ balance' = [balance EXCEPT ![S] = balance[S] - amount,
                                                     ![D] = balance[D] + amount]
                       /\ Len(log') = n + 2
                       /\ \A i \in DOMAIN log : log'[i] = log[i]
                       /\ \A i \in DOMAIN log : log[i].transfer_pair_id # req[p].transfer_pair_id
                       /\ log'[n + 1] = Transaction(log'[n + 1].id, "debit", amount, S, Null,
                                                    "approved", req[p].transfer_pair_id, Null)
                       /\ log'[n + 2] = Transaction(log'[n + 2].id, "credit", amount, Null, D,
                                                    "approved", req[p].transfer_pair_id, Null)]_vars

\* C14: a transfer declined for insufficient funds adds exactly one row (a
\* declined debit from the source with the requested amount and the transfer's
\* pair id, no destination), changes no balance, and raises InsufficientFunds
\* carrying the requested amount and the source's balance.
DeclinedTransferNeutral ==
    [][\A p \in Procs :
          (/\ Finishes(p)
           /\ req[p].op = "create_transfer"
           /\ err[p].kind = "InsufficientFunds") =>
              /\ balance' = balance
              /\ Len(log') = Len(log) + 1
              /\ \A i \in DOMAIN log : log'[i] = log[i]
              /\ LET t == log'[Len(log')]
                 IN t = Transaction(t.id, "debit", req[p].amount_cents, req[p].from_account_id,
                                    Null, "declined", req[p].transfer_pair_id, Null)
              /\ err[p].account_id = req[p].from_account_id
              /\ err[p].requested_cents = req[p].amount_cents
              /\ err[p].available_cents = balance[req[p].from_account_id]
              /\ balance[req[p].from_account_id] < req[p].amount_cents]_vars

\* the rows of the committed log that carry pair id u
Carriers(u) == {i \in DOMAIN log : log[i].transfer_pair_id = u}

PairIds == {log[i].transfer_pair_id : i \in DOMAIN log} \ {Null}

\* C15 as stated: every non-null transfer_pair_id in the log is carried by
\* exactly two transactions.
PairIdOnExactlyTwoRows == \A u \in PairIds : Cardinality(Carriers(u)) = 2

\* C15 amended: every non-null transfer_pair_id in the log is carried either
\* by exactly two rows, the approved debit and the approved credit of one
\* transfer, or by exactly one row, the declined debit of a declined transfer.
PairIdOnTwoApprovedOrOneDeclined ==
    \A u \in PairIds :
        \/ \E i, j \in Carriers(u) :
              /\ Carriers(u) = {i, j}
              /\ i # j
              /\ log[i].type = "debit" /\ log[i].status = "approved"
              /\ log[j].type = "credit" /\ log[j].status = "approved"
        \/ \E i \in Carriers(u) :
              /\ Carriers(u) = {i}
              /\ log[i].type = "debit" /\ log[i].status = "declined"

\* a declined transfer was committed first, with a pair id no other row
\* carries, and an approved transfer after it
LonePairIdThenPair ==
    \E i, j, k \in DOMAIN log :
        /\ i < j /\ j < k
        /\ log[i].status = "declined" /\ Carriers(log[i].transfer_pair_id) = {i}
        /\ log[i].transfer_pair_id # Null
        /\ log[j].transfer_pair_id # Null
        /\ Carriers(log[j].transfer_pair_id) = {j, k}

\* C16: every row of the log has exactly one of from_account_id and
\* to_account_id set: a debit (approved or declined, transfer leg or not) only
\* from_account_id, a credit only to_account_id.
ExactlyOneEndpoint ==
    \A i \in DOMAIN log :
        /\ log[i].type \in {"debit", "credit"}
        /\ log[i].type = "debit" =>
              log[i].from_account_id \in Accounts /\ log[i].to_account_id = Null
        /\ log[i].type = "credit" =>
              log[i].to_account_id \in Accounts /\ log[i].from_account_id = Null

\* the log holds a declined single-account debit and both legs of a transfer
DebitsAndLegsCommitted ==
    /\ \E i \in DOMAIN log : /\ log[i].type = "debit" /\ log[i].status = "declined"
                              /\ log[i].transfer_pair_id = Null
    /\ \E i, j \in DOMAIN log : /\ log[i].type = "debit" /\ log[j].type = "credit"
                                 /\ log[i].transfer_pair_id # Null
                                 /\ log[i].transfer_pair_id = log[j].transfer_pair_id

\* the card a create_transaction call supplies may not be used for it
InvalidCard(r) ==
    /\ r.op = "create_transaction"
    /\ r.card_id # Null
    /\ \/ r.txn_type = "credit"
       \/ r.card_id \notin Cards
       \/ card_account_id(r.card_id) # r.account_id
       \/ ~card_is_active(r.card_id)

RequestCardId(p) ==
    IF "request_card_id" \in DOMAIN req[p] THEN req[p].request_card_id ELSE Null

\* C18: a debit posted to the create-transaction endpoint with the id of an
\* active card of the debited account produces a row (approved or declined)
\* whose card_id is that id; credits and card-less debits produce rows with
\* card_id null.
CardRecordedOnRow ==
    [][\A p \in Procs :
          (CommitsOutcome(p) /\ req[p].op = "create_transaction") =>
              LET t == log'[Len(log')]
                  c == RequestCardId(p)
              IN /\ Len(log') = Len(log) + 1
                 /\ (/\ req[p].txn_type = "debit"
                     /\ c \in Cards
                     /\ card_account_id(c) = req[p].account_id
                     /\ card_is_active(c)) => t.card_id = c
                 /\ (req[p].txn_type = "credit" \/ c = Null) => t.card_id = Null]_vars

\* p's request carries an amount that is not positive
NonPositiveAmount(p) ==
    /\ req[p].op \in {"create_transaction", "create_transfer"}
    /\ req[p].amount_cents <= 0

\* every committed row has a positive amount
PositiveAmounts == \A i \in DOMAIN log : log[i].amount_cents > 0

\* a call with a non-positive amount never returns, is refused by the schema
\* or by the table constraint and never as InsufficientFunds, and finishes
\* without changing a balance or the log
NonPositiveRefused ==
    \A p \in Procs : NonPositiveAmount(p) =>
        /\ pc[p] # "returned"
        /\ pc[p] = "raised" => err[p].kind \in {"RequestValidationError", "Exception"}
        /\ Finishes(p) => UNCHANGED <<balance, log>>

\* C19: every row of the log has amount_cents > 0, and a create_transaction
\* or create_transfer call with amount <= 0 is rejected as a contract
\* violation, not as an InsufficientFunds decline, with no balance changed and
\* no row added.
NonPositiveAmountRejected == []PositiveAmounts /\ [][NonPositiveRefused]_vars

\* a transfer of a non-positive amount reached the flush and was refused by
\* the table constraint, and a request with a non-positive amount was refused
\* by the schema
ConstraintAndSchemaRefusals ==
    \E p, q \in Procs :
        /\ NonPositiveAmount(p) /\ req[p].op = "create_transfer"
        /\ pc[p] = "raised" /\ err[p].kind = "Exception"
        /\ Len(sess[p].rows) = 2 /\ sess[p].rows[1].id = Null
        /\ NonPositiveAmount(q)
        /\ pc[q] = "raised" /\ err[q].kind = "RequestValidationError"

\* p's request is a transfer from an account to itself
SameAccountTransfer(p) ==
    /\ req[p].op = "create_transfer"
    /\ req[p].from_account_id = req[p].to_account_id

\* such a request is refused at once: it never reaches a SELECT, loads and
\* stages nothing and holds no lock
RefusedBeforeLocks ==
    \A p \in Procs : SameAccountTransfer(p) =>
        /\ pc[p] = "raised"
        /\ err[p].kind \in {"RequestValidationError", "Exception"}
        /\ sess[p] = EmptySession
        /\ \A a \in Accounts : rowLock[a] # p
        /\ writeLock # p

\* C20: a transfer whose source and destination are the same account is
\* rejected before any lock is taken or any state is changed: no balance
\* changes and no row, approved or declined, is created.
SameAccountTransferRejected ==
    /\ []RefusedBeforeLocks
    /\ [][\A p \in Procs : (SameAccountTransfer(p) /\ Acts(p)) => UNCHANGED <<balance, log>>]_vars

\* a transfer of an amount its account could cover, from that account to
\* itself, has been refused
SameAccountRefused ==
    \E p \in Procs :
        /\ SameAccountTransfer(p)
        /\ pc[p] = "raised" /\ err[p].kind = "RequestValidationError"
        /\ req[p].amount_cents > 0
        /\ balance[req[p].from_account_id] >= req[p].amount_cents

\* the step in which create_transaction p decides on the balance it loaded and
\* stages the outcome in its session
Decides(p) ==
    /\ pc[p] = "body"
    /\ req[p].op = "create_transaction"
    /\ sess'[p].rows # <<>>

\* C21: a credit of amount a on balance b is always approved with new balance
\* b + a; a debit is approved if and only if b >= a, with new balance b - a
\* (a debit of exactly the balance leaves 0), and is declined with the balance
\* unchanged when b < a.
DecisionStep ==
    \A p \in Procs : Decides(p) =>
        LET account == req[p].account_id
            b == sess[p].snap[account]
            a == req[p].amount_cents
            t == sess'[p].rows[1]
            new == sess'[p].snap[account]
        IN /\ Len(sess'[p].rows) = 1
           /\ t.status \in {"approved", "declined"}
           /\ req[p].txn_type = "credit" => t.status = "approved" /\ new = b + a
           /\ req[p].txn_type = "debit" =>
                 /\ t.status = "approved" <=> b >= a
                 /\ t.status = "approved" => new = b - a
                 /\ t.status = "declined" => new = b /\ sess'[p].dirty = {}
           /\ t.status = "approved" => sess'[p].dirty = {account} /\ pc'[p] = "returned"
           /\ t.status = "declined" => pc'[p] = "raised" /\ err'[p].kind = "InsufficientFunds"

ApproveDeclineDecision == [][DecisionStep]_vars

\* one debit of exactly the loaded balance has been approved and leaves 0, and
\* another debit, of more than the balance it loaded, has been declined
ExactDebitApprovedLargerDeclined ==
    \E p, q \in Procs :
        /\ pc[p] = "returned" /\ req[p].op = "create_transaction"
        /\ req[p].txn_type = "debit"
        /\ sess[p].snap[req[p].account_id] = 0
        /\ sess[p].rows[1].status = "approved"
        /\ pc[q] = "raised" /\ err[q].kind = "InsufficientFunds"
        /\ req[q].op = "create_transaction"
        /\ sess[q].rows[1].status = "declined"

\* every committed row is approved or declined, and a declined row adds
\* nothing to the computed balance of any account
StatusFixedAtCreation ==
    \A i \in DOMAIN log :
        /\ log[i].status \in {"approved", "declined"}
        /\ log[i].status = "declined" => \A a \in Accounts : Contribution(log[i], a) = 0

\* a step keeps every committed row as it is, and a step that commits
\* declined rows only leaves every cached balance as it was
KeepsCommittedRows ==
    /\ LogOnlyGrows
    /\ (NewRows # {} /\ \A t \in NewRows : t.status = "declined") => balance' = balance

\* C22: the log is append-only: no later operation deletes a committed row or
\* changes any of its fields; every committed row is approved or declined,
\* never pending, and declined rows never contribute to any balance.
AppendOnlyLog == []StatusFixedAtCreation /\ [][KeepsCommittedRows]_vars

\* a declined row was committed and an approved row of a later operation
\* after it
DeclinedRowThenLaterCommit ==
    \E i, j \in DOMAIN log :
        /\ i < j
        /\ log[i].status = "declined"
        /\ log[j].status = "approved"

\* the step in which get_db finishes a call that was abandoned or failed
\* unexpectedly leaves balances and log as they are and frees the call's locks
RollsBackCleanly ==
    \A p \in Procs : (Finishes(p) /\ err[p].kind = "Exception") =>
        /\ UNCHANGED <<balance, log>>
        /\ \A a \in Accounts : rowLock'[a] # p
        /\ writeLock' # p

\* no step of a call before its finishing step changes a committed balance or
\* the log
NothingVisibleBeforeCommit ==
    \A p \in Procs : (Acts(p) /\ ~Finishes(p)) => UNCHANGED <<balance, log>>

\* C23: a create_transaction or create_transfer call that is abandoned or
\* fails unexpectedly at any step before its commit, also after it modified
\* balances in its session or flushed rows, is rolled back: the committed
\* balances and log are exactly as before the call.
AbandonedCallRollsBack == [][RollsBackCleanly /\ NothingVisibleBeforeCommit]_vars

\* a transfer failed after it had modified both balances in its session and
\* flushed both rows
FailedAfterFlush ==
    \E p \in Procs :
        /\ pc[p] = "raised" /\ err[p].kind = "Exception"
        /\ req[p].op = "create_transfer"
        /\ Cardinality(sess[p].dirty) = 2
        /\ Len(sess[p].rows) = 2
        /\ sess[p].rows[1].id # Null
        /\ \E a \in sess[p].dirty : sess[p].snap[a] # balance[a]

\* a get_balance call never stages a write and none of its steps changes a
\* balance, the log or a lock
BalanceReadFrame ==
    \A p \in Procs : req[p].op = "get_balance" =>
        /\ sess[p].dirty = {} /\ sess[p].rows = <<>>
        /\ Acts(p) => UNCHANGED <<balance, log, rowLock, writeLock, nextUuid>>

\* a get_balance call that returned, with no write committed since its first
\* read, returns the cached balance, the balance computed from the log, and
\* whether they agree; so does every other such call
BalanceReadStable ==
    \A p \in Procs :
        (req[p].op = "get_balance" /\ pc[p] = "returned" /\ req[p].seen = {Len(log)}) =>
            LET a == req[p].account_id
            IN BalanceResult(p) =
                 [cached_balance_cents |-> balance[a],
                  computed_balance_cents |-> compute_balance_from_transactions(log, a),
                  match |-> (balance[a] = compute_balance_from_transactions(log, a))]

\* C24: get_balance changes no state: it never writes the cached balance or
\* the log, even when cached and computed values differ (the mismatch is only
\* reported as match = false), and two calls with no intervening write return
\* the same cached, computed and match values.
BalanceReadOnly == []BalanceReadStable /\ [][BalanceReadFrame]_vars

\* get_balance has returned match = false for an account whose cached balance
\* differs from its computed balance
MismatchReported ==
    \E p \in Procs :
        /\ req[p].op = "get_balance" /\ pc[p] = "returned"
        /\ req[p].seen = {Len(log)}
        /\ ~BalanceResult(p).match
        /\ balance[req[p].account_id] # compute_balance_from_transactions(log, req[p].account_id)

\* no account has two committed cards
OneCardPerAccount ==
    \A c, d \in cards : c.account_id = d.account_id => c = d

\* the existence check of an issue_card call on an account that has a card
\* raises DuplicateCardError (unless the call is abandoned there), and the
\* call that ends with DuplicateCardError creates nothing
DuplicateCardStep ==
    \A p \in Procs : req[p].op = "issue_card" =>
        /\ ( /\ pc[p] = "card_existing" /\ Acts(p)
             /\ \E c \in cards : c.account_id = req[p].account_id )
           => (pc'[p] = "raised" /\ err'[p].kind \in {"DuplicateCard", "Exception"})
        /\ err[p].kind = "DuplicateCard" =>
             /\ sess[p].new_cards = {}
             /\ Finishes(p) => UNCHANGED <<cards, balance, log>>

\* C25: each account has at most one card: issue_card on an account that
\* already has a card fails with DuplicateCardError and creates nothing, and
\* two concurrent issue_card calls for the same account never both commit a card.
AtMostOneCard == []OneCardPerAccount /\ [][DuplicateCardStep]_vars

\* two issue_card calls for the same account both passed the existence
\* check; one has committed its card while the other is about to insert
ConcurrentIssueOneCommitted ==
    \E p \in Procs :
        /\ req[p].op = "issue_card" /\ pc[p] = "card_flush"
        /\ \E c \in cards : c.account_id = req[p].account_id

\* no two accounts share an account_number
UniqueAccountNumbers ==
    \A a, b \in DOMAIN account_number :
        account_number[a] = account_number[b] => a = b

\* the accounts a step creates
NewAccounts == DOMAIN account_number' \ DOMAIN account_number

\* a new account has cached balance 0, computed balance 0 and a number no
\* account had; only the commit of a create_account call that returned
\* creates an account, and it creates one
AccountCreationStep ==
    /\ \A a \in NewAccounts :
          /\ balance'[a] = 0
          /\ total_credits(log', a) - total_debits(log', a) = 0
          /\ \A b \in DOMAIN account_number : account_number[b] # account_number'[a]
    /\ \A b \in DOMAIN account_number :
          b \in DOMAIN account_number' /\ account_number'[b] = account_number[b]
    /\ DOMAIN balance' = DOMAIN account_number'
    /\ \A p \in Procs : (req[p].op = "create_account" /\ Finishes(p)) =>
          IF pc[p] = "returned" THEN Cardinality(NewAccounts) = 1 ELSE NewAccounts = {}

\* RuntimeError is raised by the tenth collision in a row and by nothing
\* else, and no loop runs longer
TenCollisionsAreFatal ==
    \A p \in Procs : req[p].op = "create_account" =>
        /\ req[p].attempts <= AccountNumberAttempts
        /\ (pc[p] = "generate" /\ req[p].attempts > 0) =>
              \E a \in DOMAIN account_number : account_number[a] = req[p].account_number
        /\ pc[p] = "generate" => req[p].attempts < AccountNumberAttempts
        /\ err[p].kind = "RuntimeError" =>
              /\ req[p].attempts = AccountNumberAttempts
              /\ sess[p].new_accounts = {}
              /\ \E a \in DOMAIN account_number : account_number[a] = req[p].account_number

\* C26: every account is created with cached balance 0 (computed balance 0,
\* match true) and an account_number different from that of every other
\* account; no two accounts ever share an account_number, and creation fails
\* fatally rather than reusing a number when 10 consecutive generated
\* numbers all collide.
AccountCreation ==
    /\ [](UniqueAccountNumbers /\ TenCollisionsAreFatal)
    /\ [][AccountCreationStep]_vars

\* one account has been created, and another creation has failed with
\* RuntimeError after ten collisions
CreatedAndTenCollisions ==
    /\ Cardinality(DOMAIN account_number) > Cardinality(Accounts)
    /\ \E p \in Procs :
          /\ req[p].op = "create_account" /\ pc[p] = "raised"
          /\ err[p].kind = "RuntimeError"

\* the rows of the ledger that touch the account in the month
RowsOfMonth(account_id, year, month) ==
    { i \in 1..Len(log) :
        /\ log[i].from_account_id = account_id \/ log[i].to_account_id = account_id
        /\ log[i].created_at[1] = year /\ log[i].created_at[2] = month }

RECURSIVE SumOver(_, _)
SumOver(S, f) ==
    IF S = {} THEN 0
    ELSE LET i == CHOOSE i \in S : TRUE IN f[i] + SumOver(S \ {i}, f)

\* the month after
NextMonth(year, month) == IF month = 12 THEN <<year + 1, 1>> ELSE <<year, month + 1>>

\* a statement that has been returned
Statements == { req[p].statement : p \in {q \in Procs : req[q].op = "generate_statement" /\ pc[q] = "returned"} }

\* C27: generate_statement returns closing = opening + total_credits -
\* total_debits, where the totals count only the approved transactions of the
\* month (declined ones are listed and counted in transaction_count but
\* excluded from the totals), opening is the net of all approved transactions
\* before the month, and the opening balance of month m+1 equals the closing
\* balance of month m.
StatementArithmetic ==
    \A st \in Statements :
        LET a == st.account_id
            inMonth == RowsOfMonth(a, st.year, st.month)
            before == { i \in 1..Len(log) : Before(log[i].created_at, <<st.year, st.month>>) }
            credit == [i \in 1..Len(log) |->
                         IF Contribution(log[i], a) > 0 THEN Contribution(log[i], a) ELSE 0]
            debit == [i \in 1..Len(log) |->
                        IF Contribution(log[i], a) < 0 THEN 0 - Contribution(log[i], a) ELSE 0]
            net == [i \in 1..Len(log) |-> Contribution(log[i], a)]
        IN /\ st.closing_balance_cents =
                st.opening_balance_cents + st.total_credits_cents - st.total_debits_cents
           /\ st.total_credits_cents = SumOver(inMonth, credit)
           /\ st.total_debits_cents = SumOver(inMonth, debit)
           /\ st.transaction_count = Cardinality(inMonth)
           /\ {t.id : t \in {st.transactions[i] : i \in 1..Len(st.transactions)}}
                = {log[i].id : i \in inMonth}
           /\ st.opening_balance_cents = SumOver(before, net)
           /\ \A nx \in Statements :
                (nx.account_id = a /\ <<nx.year, nx.month>> = NextMonth(st.year, st.month))
                    => nx.opening_balance_cents = st.closing_balance_cents

\* the statements of December and of the following January have been
\* returned for an account with an approved and a declined row in December
DecemberThenJanuary ==
    \E st, nx \in Statements :
        /\ st.account_id = nx.account_id
        /\ st.month = 12 /\ nx.month = 1 /\ nx.year = st.year + 1
        /\ st.transaction_count > 1
        /\ st.total_credits_cents > 0
        /\ \E i \in 1..Len(st.transactions) : st.transactions[i].status = "declined"
        /\ nx.opening_balance_cents = st.closing_balance_cents
        /\ nx.opening_balance_cents > 0

\* C28: every create_transfer acquires the lock of the account with the
\* smaller id before requesting the lock of the account with the larger id,
\* whichever of the two is the source; no transfer holds the larger-id lock
\* while waiting for the smaller-id lock, and no balance is read (checked or
\* changed by the body) before both locks are held.
TransferLockOrder ==
    \A p \in Procs : req[p].op = "create_transfer" =>
        LET from == req[p].from_account_id
            to == req[p].to_account_id
            smaller == IF from < to THEN from ELSE to
            larger == IF from < to THEN to ELSE from
        IN /\ (pc[p] = "select_second" /\ smaller \in Accounts) => rowLock[smaller] = p
           /\ ~(pc[p] = "select_first" /\ larger \in Accounts /\ rowLock[larger] = p)
           /\ pc[p] = "body" =>
                \A a \in {smaller, larger} \cap Accounts : rowLock[a] = p

\* the typed business errors of create_transaction and create_transfer
TypedBusinessErrors == {"AccountNotFound", "UnauthorizedAccess", "InsufficientFunds"}

RaisedTyped(p) ==
    /\ req[p].op \in {"create_transaction", "create_transfer"}
    /\ pc[p] = "raised"
    /\ err[p].kind \in TypedBusinessErrors

\* where a typed business error has been raised, the session holds no balance
\* modification and at most one row, a declined one, and that only with
\* InsufficientFunds
PendingAtTypedError ==
    \A p \in Procs : RaisedTyped(p) =>
        /\ sess[p].dirty = {}
        /\ Len(sess[p].rows) <= 1
        /\ \A i \in 1..Len(sess[p].rows) : sess[p].rows[i].status = "declined"
        /\ sess[p].rows # <<>> => err[p].kind = "InsufficientFunds"

\* the commit of get_db after a typed business error changes no balance and
\* adds no approved row
CommitAfterTypedError ==
    \A p \in Procs : (RaisedTyped(p) /\ Finishes(p)) =>
        /\ balance' = balance
        /\ log' = log \o sess[p].rows
        /\ \A t \in NewRows : t.status = "declined"

\* C29: wherever create_transaction or create_transfer raises a typed business
\* error, the session's pending writes are at most one declined row and no
\* balance modification; so the commit-on-BankAPIError path of get_db never
\* commits a balance change without its approved row nor an approved row
\* without its balance change.
TypedErrorsCommitOnlyDeclines == []PendingAtTypedError /\ [][CommitAfterTypedError]_vars

\* a declined transfer waits for its commit with its declined row pending
\* while a refused call waits with an empty session
DeclineAndRefusalPending ==
    \E p, q \in Procs :
        /\ RaisedTyped(p) /\ req[p].op = "create_transfer"
        /\ err[p].kind = "InsufficientFunds" /\ Len(sess[p].rows) = 1
        /\ RaisedTyped(q) /\ err[q].kind \in {"AccountNotFound", "UnauthorizedAccess"}
        /\ sess[q].rows = <<>>

\* a create_transfer call that passed the schema and was not abandoned
CompletedTransfer(p) ==
    /\ req[p].op = "create_transfer"
    /\ TransferRequestValid(req[p])
    /\ Finishes(p)
    /\ err[p].kind # "Exception"

\* C30: create_transfer checks the existence of both accounts before the
\* ownership and the balance: with either account missing the result is
\* AccountNotFound and no row, also when the requester does not own the source
\* or the source has insufficient funds; UnauthorizedAccess takes precedence
\* over InsufficientFunds, so a non-owner never causes a declined row.
TransferCheckOrder ==
    [][\A p \in Procs : CompletedTransfer(p) =>
          LET from == req[p].from_account_id
              to == req[p].to_account_id
          IN IF from \notin Accounts \/ to \notin Accounts
             THEN err[p].kind = "AccountNotFound" /\ UNCHANGED <<balance, log>>
             ELSE account_holder_id(from) # req[p].account_holder_id =>
                    (err[p].kind = "UnauthorizedAccess" /\ UNCHANGED <<balance, log>>)]_vars

\* a non-owner's transfer of more than the source holds, to a missing
\* account, raised AccountNotFound; another non-owner's transfer of more than
\* the source holds, between existing accounts, raised UnauthorizedAccess
MissingBeforeOwnerBeforeFunds ==
    \E p, q \in Procs :
        /\ RaisedTyped(p) /\ req[p].op = "create_transfer"
        /\ req[p].from_account_id \in Accounts /\ req[p].to_account_id \notin Accounts
        /\ account_holder_id(req[p].from_account_id) # req[p].account_holder_id
        /\ req[p].amount_cents > balance[req[p].from_account_id]
        /\ err[p].kind = "AccountNotFound" /\ sess[p].rows = <<>>
        /\ RaisedTyped(q) /\ req[q].op = "create_transfer"
        /\ req[q].from_account_id \in Accounts /\ req[q].to_account_id \in Accounts
        /\ account_holder_id(req[q].from_account_id) # req[q].account_holder_id
        /\ req[q].amount_cents > balance[req[q].from_account_id]
        /\ err[q].kind = "UnauthorizedAccess" /\ sess[q].rows = <<>>

====
